---- MODULE Spec2Model ----
(***************************************************************************)
(* The asynchronous checkout pipeline of ecommerce-microservices:          *)
(*   order-service   checkout -> order row + order.created event           *)
(*   payment-service consumer of order.created -> Payment row +            *)
(*                   payment.processed event                               *)
(*   email-service   consumer of payment.processed -> confirmation email   *)
(* connected by the topic exchange "ecommerce_events" of a RabbitMQ broker.*)
(*                                                                         *)
(* Money is counted in thousandths of the currency unit (10.00 = 10000),   *)
(* so that a request price with more decimals than the NUMERIC(10,2)       *)
(* columns keep can be told from its stored value.                         *)
(***************************************************************************)
EXTENDS Integers, Sequences, FiniteSets, TLC

(* ------------------------------ bounds -------------------------------- *)
MaxOrders == 2        \* checkout requests served
MaxItems == 2         \* line items of one request
MaxOutages == 1       \* times the broker becomes unreachable
MaxRestarts == 1      \* times a stopped consumer process is started again
MaxForeign == 1       \* messages put on the exchange by other publishers
MaxMonoCalls == 2     \* calls of the monolith's create_order_from_cart
MaxProductCalls == 4  \* requests served by the product service

(* ------------------------------ inputs -------------------------------- *)
NULL == "NULL"

Users == { [user_id |-> 42, user_email |-> "buyer@example.com"],
           [user_id |-> 7,  user_email |-> "other@example.com"] }

\* OrderItemRequest values: product_id, quantity, price (in thousandths);
\* quantity is any int and price any Decimal.
ItemSet == { [product_id |-> 1, quantity |-> 2, price |-> 10000],
             [product_id |-> 2, quantity |-> 1, price |-> 5000],
             [product_id |-> 3, quantity |-> 1, price |-> 5],
             [product_id |-> 4, quantity |-> 0, price |-> 1000],
             [product_id |-> 5, quantity |-> 1, price |-> 0 - 1000] }

ItemLists == UNION { [1..n -> ItemSet] : n \in 0..MaxItems }

\* CheckoutRequest values.
Requests == { [user_id |-> u.user_id, user_email |-> u.user_email, items |-> il] :
                u \in Users, il \in ItemLists }

\* The requests the whole pipeline is run on, the k-th checkout serving the
\* k-th of them (over and over): a buyer with two items, and another buyer
\* with a single item priced below a hundredth.
PipelineRequests ==
    << [ user_id |-> 42, user_email |-> "buyer@example.com",
         items |-> << [product_id |-> 1, quantity |-> 2, price |-> 10000],
                      [product_id |-> 2, quantity |-> 1, price |-> 5000] >> ],
       [ user_id |-> 7, user_email |-> "other@example.com",
         items |-> << [product_id |-> 3, quantity |-> 1, price |-> 5] >> ] >>

PipelineRequest(k) == PipelineRequests[((k - 1) % Len(PipelineRequests)) + 1]

(* ----------------------------- decimals ------------------------------- *)
\* sum(item.price * item.quantity for item in request.items)
RECURSIVE SumItems(_)
SumItems(items) ==
    IF Len(items) = 0 THEN 0
    ELSE Head(items).price * Head(items).quantity + SumItems(Tail(items))

\* A NUMERIC(10,2) column keeps two decimals: the value is rounded to the
\* nearest hundredth, ties away from zero.
Numeric_10_2(m) ==
    IF m >= 0 THEN ((m + 5) \div 10) * 10
    ELSE 0 - ((((0 - m) + 5) \div 10) * 10)

\* str(Decimal) of a value read from a NUMERIC(10,2) column: the decimal text
\* with two fractional digits, kept as the number of hundredths.
DecimalToStr(m) == <<"decimal", m \div 10>>

\* Decimal(text): the value of a decimal text; any other text raises.
IsDecimalStr(s) == Len(s) = 2 /\ s[1] = "decimal"
StrToDecimal(s) == s[2] * 10

VARIABLES
    brokerUp,      \* the RabbitMQ broker is reachable
    outages,       \* times the broker became unreachable
    pubChannel,    \* order-service EventPublisher.channel: "none", "open", "dead"
    orderUp,       \* order-service has run its startup event
    orders,        \* order-service table "orders", row i has id i
    responses,     \* checkout responses returned so far, with their requests
    published,     \* every message the three services published, in order
    foreign,       \* messages published by other publishers so far
    payQueue,      \* payment_service_queue (head is unacked while handled)
    payBound,      \* payment_service_queue is declared and bound
    payState,      \* payment consumer: "off", "consuming", "broken", "stopped"
    payStarts,     \* times the payment consumer process was started
    pay,           \* the payment callback in progress
    payments,      \* payment-service table "payments", row i has id i
    payLog,        \* one record per finished payment callback
    emailQueue,    \* email_service_queue (head is unacked while handled)
    emailBound,    \* email_service_queue is declared and bound
    emailState,    \* email consumer: "off", "consuming", "broken", "stopped"
    emailStarts,   \* times the email consumer process was started
    email,         \* the email callback in progress
    emailSends,    \* every call of send_order_confirmation_email
    emailLog,      \* one record per finished email callback
    mInventory,    \* monolith table "inventory", by product_id
    mCarts,        \* monolith cart items, by user id
    mOrders,       \* monolith table "orders"
    mOrderItems,   \* monolith table "order_items"
    mPayments,     \* monolith table "payments"
    mNotifications,\* monolith table "notifications"
    mOrderSeq,     \* the sequence of orders.id (not transactional)
    mLocks,        \* row locks on inventory, by product_id: the holder or 0
    mTx,           \* the create_order_from_cart call of each user, in progress
    mEmails,       \* every call of EmailService.send_order_confirmation
    mResponses,    \* the responses of POST /checkout of the monolith
    pProducts,     \* product-service table "products": the rows, by id
    pNextId,       \* the next value of the sequence of products.id
    pCalls,        \* the update_stock call of each request handler, in progress
    pResponses     \* the responses of the product-service routes

brokerVars == <<brokerUp, outages, published, foreign>>
orderVars == <<pubChannel, orderUp, orders, responses>>
payVars == <<payQueue, payBound, payState, payStarts, pay, payments, payLog>>
emailVars == <<emailQueue, emailBound, emailState, emailStarts, email, emailSends, emailLog>>
pipelineVars == <<brokerVars, orderVars, payVars, emailVars>>
monoTables == <<mInventory, mCarts, mOrders, mOrderItems, mPayments, mNotifications>>
monoVars == <<monoTables, mOrderSeq, mLocks, mTx, mEmails, mResponses>>
productVars == <<pProducts, pNextId, pCalls, pResponses>>
vars == <<pipelineVars, monoVars, productVars>>

IdlePay == [pc |-> "idle", msg |-> NULL, payment |-> 0, gateway |-> NULL, publish |-> NULL]
IdleEmail == [pc |-> "idle", msg |-> NULL, attempts |-> 0, sends |-> 0, result |-> NULL]

(* ---------------------- the monolith's data ------------------------- *)
MonoUsers == {1, 2}
MonoProducts == {1, 2}

UserEmail(u) == IF u = 1 THEN "buyer@example.com" ELSE "other@example.com"

\* The stock the shop starts with.
MonoStock ==
    [ p \in MonoProducts |->
        IF p = 1 THEN [quantity |-> 2, reserved_quantity |-> 0]
        ELSE [quantity |-> 1, reserved_quantity |-> 0] ]

\* The carts a user may come to the checkout with: cart items with
\* product_id, quantity and price_snapshot (in thousandths).
MonoCartChoices ==
    { <<>>,
      << [product_id |-> 1, quantity |-> 1, price_snapshot |-> 10000] >>,
      << [product_id |-> 1, quantity |-> 2, price_snapshot |-> 10000] >>,
      << [product_id |-> 2, quantity |-> 1, price_snapshot |-> 5000] >>,
      << [product_id |-> 1, quantity |-> 1, price_snapshot |-> 10000],
         [product_id |-> 2, quantity |-> 2, price_snapshot |-> 5000] >> }

IdleTx ==
    [ pc |-> "idle", cart |-> <<>>, seen |-> MonoStock, inv |-> MonoStock,
      total |-> 0, order |-> NULL, payment |-> NULL, email_sent |-> NULL ]

\* The monolith with its database seeded and nobody at the checkout.
MonoIdle ==
    /\ mInventory = MonoStock
    /\ mOrders = <<>>
    /\ mOrderItems = <<>>
    /\ mPayments = <<>>
    /\ mNotifications = <<>>
    /\ mOrderSeq = 0
    /\ mLocks = [p \in MonoProducts |-> 0]
    /\ mTx = [u \in MonoUsers |-> IdleTx]
    /\ mEmails = <<>>
    /\ mResponses = <<>>

(* ------------------- the product service's data --------------------- *)
MaxProductId == 3
ProductIds == 1..MaxProductId
ProductWorkers == {1, 2}

\* The products the service is seeded with at startup, with their stock.
SeedProducts == [ id \in {1, 2} |-> IF id = 1 THEN [stock |-> 1] ELSE [stock |-> 2] ]

\* stock_change of PATCH /products/{id}/stock: any int.
StockChanges == {0 - 2, 0 - 1, 1}

\* stock of ProductCreate (any int, default 0) and of ProductUpdate (any int,
\* or not set).
StockValues == {0 - 1, 0, 3}

IdleCall == [pc |-> "idle", id |-> 0, change |-> 0, new_stock |-> 0]

\* The product service after startup_event, no request in progress.
ProductIdle ==
    /\ pProducts = SeedProducts
    /\ pNextId = 3
    /\ pCalls = [w \in ProductWorkers |-> IdleCall]
    /\ pResponses = <<>>

PipelineInit ==
    /\ brokerUp = TRUE
    /\ outages = 0
    /\ pubChannel = "none"
    /\ orderUp = FALSE
    /\ orders = <<>>
    /\ responses = <<>>
    /\ published = <<>>
    /\ foreign = 0
    /\ payQueue = <<>>
    /\ payBound = FALSE
    /\ payState = "off"
    /\ payStarts = 0
    /\ pay = IdlePay
    /\ payments = <<>>
    /\ payLog = <<>>
    /\ emailQueue = <<>>
    /\ emailBound = FALSE
    /\ emailState = "off"
    /\ emailStarts = 0
    /\ email = IdleEmail
    /\ emailSends = <<>>
    /\ emailLog = <<>>

Init ==
    /\ PipelineInit
    /\ MonoIdle
    /\ mCarts = [u \in MonoUsers |-> <<>>]
    /\ ProductIdle

(* --------------------------- the exchange ----------------------------- *)
OrderCreatedKey == "order.order.created"
PaymentProcessedKey == "payment.payment.processed"

\* A topic exchange copies a message to every declared queue whose binding
\* matches the routing key, and drops it when there is none.
RoutePay(key, msg) ==
    IF payBound /\ key = OrderCreatedKey THEN Append(payQueue, msg) ELSE payQueue

\* An exchange on which the binding of the email queue matches nothing.
RouteEmailUnbound(key, msg) == emailQueue

RouteEmail(key, msg) ==
    IF emailBound /\ key = PaymentProcessedKey THEN Append(emailQueue, msg) ELSE emailQueue

Accepted(key, msg) == Append(published, [routing_key |-> key, body |-> msg])

\* Messages of other publishers on the two routing keys: a body that is no
\* JSON, an order.created event whose total_amount is no decimal text, an
\* order.created event without user_email; a payment.processed event with
\* status "failed", one without status, and a completed one without
\* user_email.
ForeignOrderEvent(missing, amount) ==
    [ body |-> "json", missing |-> missing, event_type |-> "order.created",
      event_id |-> <<"foreign", 0>>, order_id |-> 99, user_id |-> 42,
      user_email |-> "buyer@example.com", total_amount |-> amount, items |-> <<>> ]

ForeignPaymentEvent(missing, status) ==
    [ body |-> "json", missing |-> missing, event_type |-> "payment.processed",
      event_id |-> <<"foreign", 0>>, payment_id |-> 0, order_id |-> 99, user_id |-> 42,
      user_email |-> "buyer@example.com", amount |-> DecimalToStr(5000),
      status |-> status, transaction_id |-> NULL ]

Garbage == [body |-> "garbage", missing |-> {}, event_id |-> <<"foreign", 0>>]

ForeignMessages ==
    { <<OrderCreatedKey, Garbage>>,
      <<OrderCreatedKey, ForeignOrderEvent({}, <<"text", "abc">>)>>,
      <<OrderCreatedKey, ForeignOrderEvent({"user_email"}, DecimalToStr(5000))>>,
      <<PaymentProcessedKey, Garbage>>,
      <<PaymentProcessedKey, ForeignPaymentEvent({}, "failed")>>,
      <<PaymentProcessedKey, ForeignPaymentEvent({"status"}, NULL)>>,
      <<PaymentProcessedKey, ForeignPaymentEvent({"user_email"}, "completed")>> }

ForeignPublish(key, msg) ==
    /\ brokerUp
    /\ (key = OrderCreatedKey /\ payBound) \/ (key = PaymentProcessedKey /\ emailBound)
    /\ foreign < MaxForeign
    /\ foreign' = foreign + 1
    /\ payQueue' = RoutePay(key, msg)
    /\ emailQueue' = RouteEmail(key, msg)
    /\ UNCHANGED <<brokerUp, outages, published, orderVars>>
    /\ UNCHANGED <<payBound, payState, payStarts, pay, payments, payLog>>
    /\ UNCHANGED <<emailBound, emailState, emailStarts, email, emailSends, emailLog>>
    /\ UNCHANGED <<monoVars, productVars>>

\* A consumer whose connection is lost leaves start_consuming when it is
\* between messages; a callback in progress finds out when it settles.
AfterConnectionLoss(state, pc) ==
    IF state = "consuming" THEN (IF pc = "idle" THEN "stopped" ELSE "broken")
    ELSE state

BrokerDown ==
    /\ brokerUp
    /\ outages < MaxOutages
    /\ brokerUp' = FALSE
    /\ outages' = outages + 1
    /\ pubChannel' = IF pubChannel = "open" THEN "dead" ELSE pubChannel
    /\ payState' = AfterConnectionLoss(payState, pay.pc)
    /\ emailState' = AfterConnectionLoss(emailState, email.pc)
    /\ UNCHANGED <<published, foreign, orderUp, orders, responses>>
    /\ UNCHANGED <<payQueue, payBound, payStarts, pay, payments, payLog>>
    /\ UNCHANGED <<emailQueue, emailBound, emailStarts, email, emailSends, emailLog>>
    /\ UNCHANGED <<monoVars, productVars>>

BrokerBack ==
    /\ ~brokerUp
    /\ brokerUp' = TRUE
    /\ UNCHANGED <<outages, published, foreign, orderVars, payVars, emailVars>>
    /\ UNCHANGED <<monoVars, productVars>>

(* --------------------------- order-service ---------------------------- *)
\* startup_event: connect once; a failure is logged and the service serves.
startup_event ==
    /\ ~orderUp
    /\ orderUp' = TRUE
    /\ pubChannel' = IF brokerUp THEN "open" ELSE "none"
    /\ UNCHANGED <<orders, responses, brokerVars, payVars, emailVars>>
    /\ UNCHANGED <<monoVars, productVars>>

\* The Order row of a request, as read back after commit and refresh.
NewOrder(req, id) ==
    [ id |-> id, user_id |-> req.user_id, user_email |-> req.user_email,
      status |-> "pending",
      total_amount |-> Numeric_10_2(SumItems(req.items)),
      items |-> req.items,
      processing_duration_ms |-> NULL ]

\* event_data of checkout; uuid4 gives every event an id of its own.
OrderCreatedEvent(order) ==
    [ body |-> "json", missing |-> {}, event_type |-> "order.created",
      event_id |-> <<"order", order.id>>, order_id |-> order.id,
      user_id |-> order.user_id,
      user_email |-> order.user_email,
      total_amount |-> DecimalToStr(order.total_amount),
      items |-> order.items ]

\* EventPublisher.publish_event: connect when there is no channel, then
\* basic_publish; either may raise.
PublishEventResult(chan, up) ==
    IF chan = "none" THEN (IF up THEN "ok" ELSE "connect_failed")
    ELSE IF chan = "open" THEN "ok" ELSE "publish_failed"

\* A publisher that opens a new channel when the one it holds is closed.
ChannelAfterPublishReopens(chan, up) ==
    IF up THEN "open" ELSE chan

ChannelAfterPublish(chan, up) ==
    IF chan = "none" /\ up THEN "open" ELSE chan

\* The publish exception reaches the caller.
CheckoutCodeUncaught(pubResult) == IF pubResult = "ok" THEN 200 ELSE 500

\* The status of the checkout response: the publish exception is caught.
CheckoutCode(pubResult) == 200

\* The checkout waits for the payment consumer to take the order.
CheckoutReadyWaits == orderUp /\ payState = "consuming" /\ pay.pc = "idle"

\* What a checkout needs in order to run and return.
CheckoutReady == orderUp

\* A checkout that publishes whether or not the order was committed.
PublishBeforePersist(persistFails) == TRUE

\* The publish is reached only when the commit of the new row returned.
PublishReached(persistFails) == ~persistFails

\* An exception of db.commit() leaves the handler: a server error.
ResponseCode(pubResult, persistFails, finalFails) ==
    IF persistFails \/ finalFails THEN 500 ELSE CheckoutCode(pubResult)

\* checkout, given whether the commit of the new row and the commit of
\* processing_duration_ms raise.
Checkout(req, persistFails, finalFails) ==
    /\ CheckoutReady
    /\ Len(responses) < MaxOrders
    /\ LET order == NewOrder(req, Len(orders) + 1)
           event == OrderCreatedEvent(order)
           reached == PublishReached(persistFails)
           res == IF reached THEN PublishEventResult(pubChannel, brokerUp)
                  ELSE "not_attempted"
           final == IF finalFails THEN order
                    ELSE [order EXCEPT !.processing_duration_ms = "measured"]
           code == ResponseCode(res, persistFails, finalFails)
       IN /\ orders' = IF persistFails THEN orders ELSE Append(orders, final)
          /\ pubChannel' = IF reached THEN ChannelAfterPublish(pubChannel, brokerUp)
                           ELSE pubChannel
          /\ published' = IF res = "ok" THEN Accepted(OrderCreatedKey, event) ELSE published
          /\ payQueue' = IF res = "ok" THEN RoutePay(OrderCreatedKey, event) ELSE payQueue
          /\ emailQueue' = IF res = "ok" THEN RouteEmail(OrderCreatedKey, event) ELSE emailQueue
          /\ responses' = Append(responses,
                IF code = 200
                THEN [ code |-> code, request |-> req, publish |-> res,
                       persist |-> "ok", final |-> "ok",
                       id |-> final.id, user_id |-> final.user_id,
                       user_email |-> final.user_email, status |-> final.status,
                       total_amount |-> final.total_amount, items |-> final.items ]
                ELSE [ code |-> code, request |-> req, publish |-> res,
                       persist |-> IF persistFails THEN "failed" ELSE "ok",
                       final |-> IF persistFails THEN "not_attempted"
                                 ELSE IF finalFails THEN "failed" ELSE "ok",
                       id |-> NULL, user_id |-> NULL, user_email |-> NULL,
                       status |-> NULL, total_amount |-> NULL, items |-> NULL ])
    /\ UNCHANGED <<brokerUp, outages, foreign, orderUp>>
    /\ UNCHANGED <<payBound, payState, payStarts, pay, payments, payLog>>
    /\ UNCHANGED <<emailBound, emailState, emailStarts, email, emailSends, emailLog>>
    /\ UNCHANGED <<monoVars, productVars>>

\* checkout with the order store answering.
checkout(req) == Checkout(req, FALSE, FALSE)

(* ----------------------- consumers, in common ------------------------ *)
Has(msg, key) == key \notin msg.missing

\* json.loads(body) and event_data['event_type'] in a callback.
ParseRaises(msg) == msg.body = "garbage" \/ ~Has(msg, "event_type")

\* A settlement that puts the message back at the end of the queue.
QueueAfterRequeue(queue, state) ==
    IF state = "consuming" THEN Append(Tail(queue), Head(queue)) ELSE queue

\* basic_ack / basic_nack(requeue=False) take the message off the queue; on a
\* lost connection both raise, the consumer leaves start_consuming and the
\* unacknowledged message stays with the broker.
\* A consumer that goes back to consuming after its connection was lost.
StateAfterReconnects(state) == "consuming"

Settled(state, how) == IF state = "consuming" THEN how ELSE "unsettled"
QueueAfter(queue, state) == IF state = "consuming" THEN Tail(queue) ELSE queue
StateAfter(state) == IF state = "consuming" THEN "consuming" ELSE "stopped"

(* -------------------------- payment-service --------------------------- *)
\* process_payment up to the first commit: the log lines read order_id and
\* total_amount, Payment(...) reads user_id and converts the amount. When one
\* of them raises there is no payment object, the handler of process_payment
\* raises in turn and the exception reaches the callback.
CreationRaises(msg) ==
    \/ ~Has(msg, "order_id")
    \/ ~Has(msg, "total_amount")
    \/ ~Has(msg, "user_id")
    \/ ~IsDecimalStr(msg.total_amount)

\* A payment table keyed by the order: one row identity per order_id.
NewPaymentPerOrder(msg, id) ==
    [ id |-> msg.order_id, order_id |-> msg.order_id, user_id |-> msg.user_id,
      amount |-> Numeric_10_2(StrToDecimal(msg.total_amount)),
      status |-> "pending", transaction_id |-> NULL ]

\* A payment whose amount is computed again from the items of the event.
NewPaymentRecomputed(msg, id) ==
    [ id |-> id, order_id |-> msg.order_id, user_id |-> msg.user_id,
      amount |-> SumItems(msg.items),
      status |-> "pending", transaction_id |-> NULL ]

\* The Payment row of process_payment, as read back after commit and refresh.
NewPayment(msg, id) ==
    [ id |-> id, order_id |-> msg.order_id, user_id |-> msg.user_id,
      amount |-> Numeric_10_2(StrToDecimal(msg.total_amount)),
      status |-> "pending", transaction_id |-> NULL ]

\* A gateway failure that is not recorded.
StatusAlwaysCompleted(raises) == "completed"

\* The status process_payment commits after the gateway call.
StatusAfterGateway(raises) == IF raises THEN "failed" ELSE "completed"

\* f"TXN-{uuid.uuid4().hex[:12].upper()}": an identifier of its own per payment.
NewTransactionId(id) == <<"TXN", id>>

\* A payment.processed event addressed from the payment's user_id instead of
\* the order event: the worker has no user table, so a fixed address.
PaymentProcessedEventOwnAddress(payment, msg) ==
    [ body |-> "json", missing |-> {}, event_type |-> "payment.processed",
      event_id |-> <<"payment", payment.id>>, payment_id |-> payment.id,
      order_id |-> payment.order_id, user_id |-> payment.user_id,
      user_email |-> "buyer@example.com",
      amount |-> DecimalToStr(payment.amount), status |-> payment.status,
      transaction_id |-> payment.transaction_id ]

\* A payment.processed event built from the payment as it was created,
\* before the outcome of the gateway call was written to it.
PaymentProcessedEventAsCreated(payment, msg) ==
    [ body |-> "json", missing |-> {}, event_type |-> "payment.processed",
      event_id |-> <<"payment", payment.id>>, payment_id |-> payment.id,
      order_id |-> payment.order_id, user_id |-> payment.user_id,
      user_email |-> msg.user_email,
      amount |-> DecimalToStr(payment.amount), status |-> "pending",
      transaction_id |-> NULL ]

\* event_data of publish_payment_event; uuid4 gives every event an id of its own.
PaymentProcessedEvent(payment, msg) ==
    [ body |-> "json", missing |-> {}, event_type |-> "payment.processed",
      event_id |-> <<"payment", payment.id>>, payment_id |-> payment.id,
      order_id |-> payment.order_id, user_id |-> payment.user_id,
      user_email |-> msg.user_email,
      amount |-> DecimalToStr(payment.amount), status |-> payment.status,
      transaction_id |-> payment.transaction_id ]

\* publish_payment_event: building event_data raises when the order event has
\* no user_email ("not_built"); basic_publish raises on a lost connection and
\* the exception is logged ("failed").
PaymentPublishResult(msg, state) ==
    IF ~Has(msg, "user_email") THEN "not_built"
    ELSE IF state = "consuming" THEN "ok" ELSE "failed"

\* The handler of process_payment: an exception raised after the first commit
\* marks the payment failed.
StatusAfterPublish(status, res) == IF res = "not_built" THEN "failed" ELSE status

\* A callback that acknowledges whatever happened.
PaymentSettleAlwaysAck(raised) == "ack"

\* How the payment callback settles the message, given whether an exception
\* reached it.
PaymentSettle(raised) == IF raised THEN "nack" ELSE "ack"

\* The payment-service process: __main__ starts the consumer thread and then
\* serves HTTP; start_consuming and start_consumer log a consumer error and
\* return, which ends the daemon thread and nothing else.
PaymentProcess == IF payState = "off" THEN "not_started" ELSE "serving"

\* start_consuming: connect, declare and bind the queue, prefetch 1, consume.
PaymentStart ==
    /\ payState' = IF brokerUp THEN "consuming" ELSE "stopped"
    /\ payBound' = (payBound \/ brokerUp)
    /\ UNCHANGED <<payQueue, pay, payments, payLog>>
    /\ UNCHANGED <<brokerVars, orderVars, emailVars>>
    /\ UNCHANGED <<monoVars, productVars>>

PaymentStartConsuming ==
    /\ payState = "off"
    /\ payStarts' = payStarts
    /\ PaymentStart

\* The payment-service process is started again after its consumer stopped.
PaymentRestart ==
    /\ payState = "stopped"
    /\ payStarts < MaxRestarts
    /\ payStarts' = payStarts + 1
    /\ PaymentStart

\* A consumer without a prefetch limit whose callbacks run side by side.
PaymentMayDeliverUnlimited == TRUE

\* basic_qos(prefetch_count=1) on a blocking connection: the broker hands the
\* next message over only when the one before is settled, and the callback
\* runs in the consume loop itself.
PaymentMayDeliver == pay.pc = "idle"

\* callback, from delivery to the gateway call of process_payment; a message
\* that raises before there is a payment is settled at once.
PaymentCallback ==
    /\ payState = "consuming"
    /\ PaymentMayDeliver
    /\ payQueue # <<>>
    /\ LET msg == Head(payQueue) IN
       IF ParseRaises(msg) \/ CreationRaises(msg)
       THEN /\ payQueue' = QueueAfter(payQueue, payState)
            /\ payLog' = Append(payLog,
                  [ msg |-> msg, payment |-> 0, gateway |-> "not_called",
                    publish |-> "not_attempted",
                    settle |-> Settled(payState, PaymentSettle(TRUE)) ])
            /\ UNCHANGED <<pay, payments>>
       ELSE /\ payments' = Append(payments, NewPayment(msg, Len(payments) + 1))
            /\ pay' = [ pc |-> "gateway", msg |-> msg, payment |-> Len(payments) + 1,
                        gateway |-> "not_called", publish |-> "not_attempted" ]
            /\ UNCHANGED <<payQueue, payLog>>
    /\ UNCHANGED <<payBound, payState, payStarts>>
    /\ UNCHANGED <<brokerVars, orderVars, emailVars>>
    /\ UNCHANGED <<monoVars, productVars>>

\* A payment worker that writes the outcome into the order as well.
PaymentGatewayConfirms(raises) ==
    /\ pay.pc = "gateway"
    /\ payments' = [payments EXCEPT
          ![pay.payment].status = IF raises THEN "failed" ELSE "completed",
          ![pay.payment].transaction_id =
              IF raises THEN @ ELSE <<"TXN", pay.payment>>]
    /\ orders' = [ i \in 1..Len(orders) |->
                     IF orders[i].id = pay.msg.order_id
                     THEN [orders[i] EXCEPT !.status = IF raises THEN "failed" ELSE "confirmed"]
                     ELSE orders[i] ]
    /\ pay' = [pay EXCEPT !.pc = IF raises THEN "settle" ELSE "publish",
                          !.gateway = IF raises THEN "raised" ELSE "returned"]
    /\ UNCHANGED <<payQueue, payBound, payState, payStarts, payLog>>
    /\ UNCHANGED <<brokerVars, pubChannel, orderUp, responses, emailVars>>
    /\ UNCHANGED <<monoVars, productVars>>

\* A process_payment that publishes the event whatever the gateway did.
AfterGatewayAlwaysPublish(raises) == "publish"

\* Where process_payment goes after the gateway step: on to
\* publish_payment_event, or through its except block to the return.
AfterGateway(raises) == IF raises THEN "settle" ELSE "publish"

\* process_payment: the gateway call returns or raises, and the status is
\* committed; after a raise process_payment returns.
PaymentGateway(raises) ==
    /\ pay.pc = "gateway"
    /\ payments' = [payments EXCEPT
          ![pay.payment].status = StatusAfterGateway(raises),
          ![pay.payment].transaction_id =
              IF raises THEN @ ELSE NewTransactionId(pay.payment)]
    /\ pay' = [pay EXCEPT !.pc = AfterGateway(raises),
                          !.gateway = IF raises THEN "raised" ELSE "returned"]
    /\ UNCHANGED <<payQueue, payBound, payState, payStarts, payLog>>
    /\ UNCHANGED <<brokerVars, orderVars, emailVars>>
    /\ UNCHANGED <<monoVars, productVars>>

\* process_payment from publish_payment_event to its return.
PaymentPublish ==
    /\ pay.pc = "publish"
    /\ LET id == pay.payment
           res == PaymentPublishResult(pay.msg, payState)
           event == PaymentProcessedEvent(payments[id], pay.msg)
       IN /\ payments' = [payments EXCEPT
                ![id].status = StatusAfterPublish(@, res)]
          /\ published' = IF res = "ok" THEN Accepted(PaymentProcessedKey, event) ELSE published
          /\ emailQueue' = IF res = "ok" THEN RouteEmail(PaymentProcessedKey, event) ELSE emailQueue
          /\ pay' = [pay EXCEPT !.pc = "settle", !.publish = res]
    /\ UNCHANGED <<payQueue, payBound, payState, payStarts, payLog>>
    /\ UNCHANGED <<brokerUp, outages, foreign, orderVars>>
    /\ UNCHANGED <<emailBound, emailState, emailStarts, email, emailSends, emailLog>>
    /\ UNCHANGED <<monoVars, productVars>>

\* callback after process_payment returned: basic_ack.
PaymentAck ==
    /\ pay.pc = "settle"
    /\ payLog' = Append(payLog,
          [ msg |-> pay.msg, payment |-> pay.payment, gateway |-> pay.gateway,
            publish |-> pay.publish,
            settle |-> Settled(payState, PaymentSettle(FALSE)) ])
    /\ payQueue' = QueueAfter(payQueue, payState)
    /\ payState' = StateAfter(payState)
    /\ pay' = IdlePay
    /\ UNCHANGED <<payBound, payStarts, payments>>
    /\ UNCHANGED <<brokerVars, orderVars, emailVars>>
    /\ UNCHANGED <<monoVars, productVars>>

(* --------------------------- email-service ---------------------------- *)
\* The other reading of the status test: send unless the payment failed.
StatusNotFailed(msg) == ~Has(msg, "status") \/ msg.status # "failed"

\* event_data.get('status') == 'completed'
StatusCompleted(msg) == Has(msg, "status") /\ msg.status = "completed"

\* send_confirmation_email reaches send_order_confirmation_email unless
\* reading its arguments raises (the exception is logged).
SendReached(msg) ==
    Has(msg, "user_email") /\ Has(msg, "order_id") /\ Has(msg, "amount")

\* The call send_confirmation_email makes, with the event it was made for.
SendCall(msg, raises) ==
    [ user_email |-> msg.user_email, order_id |-> msg.order_id,
      amount |-> msg.amount,
      transaction_id |-> IF Has(msg, "transaction_id") THEN msg.transaction_id ELSE "N/A",
      event_id |-> msg.event_id, payment_id |-> msg.payment_id,
      result |-> IF raises THEN "raised" ELSE "sent" ]

\* A send_confirmation_email that lets the exception of the send through.
SendErrorPropagates(result) == result = "raised"

\* send_confirmation_email catches the exception of the send and logs it.
SendErrorReachesCallback(result) == FALSE

\* How the email callback settles the message, given whether an exception
\* reached it.
EmailSettle(raised) == IF raised THEN "nack" ELSE "ack"

\* The email-service process, as the payment-service one.
EmailProcess == IF emailState = "off" THEN "not_started" ELSE "serving"

EmailStart ==
    /\ emailState' = IF brokerUp THEN "consuming" ELSE "stopped"
    /\ emailBound' = (emailBound \/ brokerUp)
    /\ UNCHANGED <<emailQueue, email, emailSends, emailLog>>
    /\ UNCHANGED <<brokerVars, orderVars, payVars>>
    /\ UNCHANGED <<monoVars, productVars>>

EmailStartConsuming ==
    /\ emailState = "off"
    /\ emailStarts' = emailStarts
    /\ EmailStart

\* The email-service process is started again after its consumer stopped.
EmailRestart ==
    /\ emailState = "stopped"
    /\ emailStarts < MaxRestarts
    /\ emailStarts' = emailStarts + 1
    /\ EmailStart

\* basic_qos(prefetch_count=1) on a blocking connection, as for payments.
EmailMayDeliver == email.pc = "idle"

\* callback, from delivery to the call of send_confirmation_email (the send
\* attempt); a message that raises, or that is not sent for, is settled at
\* once.
EmailCallback ==
    /\ emailState = "consuming"
    /\ EmailMayDeliver
    /\ emailQueue # <<>>
    /\ LET msg == Head(emailQueue) IN
       IF ParseRaises(msg) \/ ~StatusCompleted(msg)
       THEN /\ emailQueue' = QueueAfter(emailQueue, emailState)
            /\ emailLog' = Append(emailLog,
                  [ msg |-> msg, attempts |-> 0, sends |-> 0, result |-> NULL,
                    settle |-> Settled(emailState, EmailSettle(ParseRaises(msg))) ])
            /\ UNCHANGED email
       ELSE /\ email' = [pc |-> "sending", msg |-> msg, attempts |-> 1, sends |-> 0,
                          result |-> NULL]
            /\ UNCHANGED <<emailQueue, emailLog>>
    /\ UNCHANGED <<emailBound, emailState, emailStarts, emailSends>>
    /\ UNCHANGED <<brokerVars, orderVars, payVars>>
    /\ UNCHANGED <<monoVars, productVars>>

\* send_confirmation_email: the send returns or raises.
EmailSend(raises) ==
    /\ email.pc = "sending"
    /\ emailSends' = IF SendReached(email.msg)
                     THEN Append(emailSends, SendCall(email.msg, raises))
                     ELSE emailSends
    /\ email' = [email EXCEPT !.pc = "settle",
                              !.sends = IF SendReached(email.msg) THEN 1 ELSE 0,
                              !.result = IF SendReached(email.msg) /\ ~raises
                                         THEN "sent" ELSE "raised"]
    /\ UNCHANGED <<emailQueue, emailBound, emailState, emailStarts, emailLog>>
    /\ UNCHANGED <<brokerVars, orderVars, payVars>>
    /\ UNCHANGED <<monoVars, productVars>>

\* callback after send_confirmation_email returned: basic_ack.
EmailAck ==
    /\ email.pc = "settle"
    /\ emailLog' = Append(emailLog,
          [ msg |-> email.msg, attempts |-> email.attempts, sends |-> email.sends,
            result |-> email.result,
            settle |-> Settled(emailState, EmailSettle(SendErrorReachesCallback(email.result))) ])
    /\ emailQueue' = QueueAfter(emailQueue, emailState)
    /\ emailState' = StateAfter(emailState)
    /\ email' = IdleEmail
    /\ UNCHANGED <<emailBound, emailStarts, emailSends>>
    /\ UNCHANGED <<brokerVars, orderVars, payVars>>
    /\ UNCHANGED <<monoVars, productVars>>

(* ------------------ monolith: create_order_from_cart ------------------ *)
\* One call runs in one database transaction (READ COMMITTED): what it
\* flushes stays in mTx until the commit, and a rollback drops it.
CartProducts(cart) == { cart[i].product_id : i \in 1..Len(cart) }

RECURSIVE CartQuantity(_, _)
CartQuantity(cart, p) ==
    IF Len(cart) = 0 THEN 0
    ELSE (IF Head(cart).product_id = p THEN Head(cart).quantity ELSE 0)
         + CartQuantity(Tail(cart), p)

\* A total that adds up the prices without the quantities.
RECURSIVE CartTotalOfPrices(_)
CartTotalOfPrices(cart) ==
    IF Len(cart) = 0 THEN 0
    ELSE Head(cart).price_snapshot + CartTotalOfPrices(Tail(cart))

\* total_amount += float(cart_item.price_snapshot) * cart_item.quantity
RECURSIVE CartTotal(_)
CartTotal(cart) ==
    IF Len(cart) = 0 THEN 0
    ELSE Head(cart).price_snapshot * Head(cart).quantity + CartTotal(Tail(cart))

\* Inventory.available
Available(row) == row.quantity - row.reserved_quantity

\* The stock check of the validation loop.
InsufficientStock(cart, inv) ==
    \E i \in 1..Len(cart) : Available(inv[cart[i].product_id]) < cart[i].quantity

InProgress == { u \in MonoUsers : mTx[u].pc # "idle" }

LocksWithout(u) == [p \in MonoProducts |-> IF mLocks[p] = u THEN 0 ELSE mLocks[p]]

\* The response of the router's checkout.
MonoResponse(u, code, detail, order) ==
    [ user_id |-> u, code |-> code, detail |-> detail, order |-> order ]

\* A failure handler that leaves the flushed stock changes in place.
RollbackKeepsStock(u, code, detail) ==
    /\ mTx' = [mTx EXCEPT ![u] = IdleTx]
    /\ mLocks' = LocksWithout(u)
    /\ mResponses' = Append(mResponses, MonoResponse(u, code, detail, NULL))
    /\ mInventory' = [p \in MonoProducts |->
                        IF mLocks[p] = u THEN mTx[u].inv[p] ELSE mInventory[p]]
    /\ UNCHANGED <<mCarts, mOrders, mOrderItems, mPayments, mNotifications>>
    /\ UNCHANGED <<mOrderSeq, mEmails>>

\* except Exception: db.rollback(); raise -- and the router's HTTPException.
Rollback(u, code, detail) ==
    /\ mTx' = [mTx EXCEPT ![u] = IdleTx]
    /\ mLocks' = LocksWithout(u)
    /\ mResponses' = Append(mResponses, MonoResponse(u, code, detail, NULL))
    /\ UNCHANGED <<monoTables, mOrderSeq, mEmails>>

\* Steps 1 to 3: the cart, and the stock of every item, read without a lock.
MonoValidate(u) ==
    /\ mTx[u].pc = "idle"
    /\ Len(mResponses) + Cardinality(InProgress) < MaxMonoCalls
    /\ LET cart == mCarts[u] IN
       IF cart = <<>> THEN Rollback(u, 400, "Cart is empty")
       ELSE IF InsufficientStock(cart, mInventory)
       THEN Rollback(u, 400, "Insufficient stock")
       ELSE /\ mTx' = [mTx EXCEPT ![u] =
                         [ IdleTx EXCEPT !.pc = "reserve", !.cart = cart,
                                         !.seen = mInventory, !.inv = mInventory,
                                         !.total = CartTotal(cart) ]]
            /\ UNCHANGED <<monoTables, mOrderSeq, mLocks, mEmails, mResponses>>
    /\ UNCHANGED <<pipelineVars, productVars>>

\* The row a locking query returns: the row as committed, or the object the
\* session still holds from the validation loop, which a query does not
\* refresh.
LockedRow(u, p, src) ==
    IF src = "identity_map" THEN mTx[u].seen[p] ELSE mInventory[p]

\* Steps 4 to 6: lock and reserve every item, create the order and its
\* items. A row locked by another transaction makes this one wait.
MonoReserve(u, src) ==
    /\ mTx[u].pc = "reserve"
    /\ \A p \in CartProducts(mTx[u].cart) : mLocks[p] \in {0, u}
    /\ LET tx == mTx[u]
           ps == CartProducts(tx.cart)
           order == [ id |-> mOrderSeq + 1, user_id |-> u, status |-> "pending",
                      total_amount |-> Numeric_10_2(tx.total),
                      processing_duration_ms |-> NULL ]
       IN /\ mLocks' = [p \in MonoProducts |-> IF p \in ps THEN u ELSE mLocks[p]]
          /\ mOrderSeq' = mOrderSeq + 1
          /\ mTx' = [mTx EXCEPT ![u] =
                [ tx EXCEPT !.pc = "payment", !.order = order,
                    !.inv = [p \in MonoProducts |->
                               IF p \in ps
                               THEN [ LockedRow(u, p, src) EXCEPT
                                        !.reserved_quantity = @ + CartQuantity(tx.cart, p) ]
                               ELSE mInventory[p]] ]]
    /\ UNCHANGED <<monoTables, mEmails, mResponses>>
    /\ UNCHANGED <<pipelineVars, productVars>>

\* Steps 7 to 9: the payment gateway answers; a declined payment raises, an
\* accepted one is recorded, the order is paid and the stock is reduced.
MonoPayment(u, success) ==
    /\ mTx[u].pc = "payment"
    /\ LET tx == mTx[u]
           ps == CartProducts(tx.cart)
       IN IF ~success THEN Rollback(u, 400, "Payment failed")
          ELSE /\ mTx' = [mTx EXCEPT ![u] =
                     [ tx EXCEPT !.pc = "email",
                         !.order = [tx.order EXCEPT !.status = "paid"],
                         !.payment = [ order_id |-> tx.order.id,
                                       amount |-> Numeric_10_2(tx.total),
                                       status |-> "completed",
                                       transaction_id |-> <<"txn", tx.order.id>> ],
                         !.inv = [p \in MonoProducts |->
                                    IF p \in ps
                                    THEN [ quantity |-> tx.inv[p].quantity
                                                          - CartQuantity(tx.cart, p),
                                           reserved_quantity |-> tx.inv[p].reserved_quantity
                                                          - CartQuantity(tx.cart, p) ]
                                    ELSE tx.inv[p]] ]]
               /\ UNCHANGED <<monoTables, mOrderSeq, mLocks, mEmails, mResponses>>
    /\ UNCHANGED <<pipelineVars, productVars>>

\* Step 10: the confirmation email, sent or not; the call goes on either way.
MonoEmail(u, sent) ==
    /\ mTx[u].pc = "email"
    /\ mEmails' = Append(mEmails,
          [ order_id |-> mTx[u].order.id, user_email |-> UserEmail(u),
            total |-> mTx[u].total, sent |-> sent ])
    /\ mTx' = [mTx EXCEPT ![u].pc = "commit", ![u].email_sent = sent]
    /\ UNCHANGED <<monoTables, mOrderSeq, mLocks, mResponses>>
    /\ UNCHANGED <<pipelineVars, productVars>>

OrderItemsOf(order, cart) ==
    [ i \in 1..Len(cart) |->
        [ order_id |-> order.id, product_id |-> cart[i].product_id,
          quantity |-> cart[i].quantity, price_snapshot |-> cart[i].price_snapshot ] ]

\* Steps 11 and 12 and the commit: the notification, the cart cleared,
\* everything committed; or an exception on the way, and the rollback.
MonoCommit(u, raises) ==
    /\ mTx[u].pc = "commit"
    /\ LET tx == mTx[u]
           ps == CartProducts(tx.cart)
           order == [tx.order EXCEPT !.processing_duration_ms = "measured"]
       IN IF raises THEN Rollback(u, 500, "Order creation failed")
          ELSE /\ mInventory' = [p \in MonoProducts |->
                                   IF p \in ps THEN tx.inv[p] ELSE mInventory[p]]
               /\ mOrders' = Append(mOrders, order)
               /\ mOrderItems' = mOrderItems \o OrderItemsOf(order, tx.cart)
               /\ mPayments' = Append(mPayments, tx.payment)
               /\ mNotifications' = Append(mNotifications,
                     [ user_id |-> u, type |-> "order_confirmation",
                       order_id |-> order.id, read |-> 0 ])
               /\ mCarts' = [mCarts EXCEPT ![u] = <<>>]
               /\ mLocks' = LocksWithout(u)
               /\ mTx' = [mTx EXCEPT ![u] = IdleTx]
               /\ mResponses' = Append(mResponses, MonoResponse(u, 201, "created", order))
               /\ UNCHANGED <<mOrderSeq, mEmails>>
    /\ UNCHANGED <<pipelineVars, productVars>>

(* -------------------------- product-service --------------------------- *)
\* repository.get_by_id: the row, or None.
InStore(id) == id \in DOMAIN pProducts

\* Requests of the product service taken up so far.
ProductCallsStarted ==
    Len(pResponses) + Cardinality({ w \in ProductWorkers : pCalls[w].pc # "idle" })

ProductResponse(op, id, code, stock, change) ==
    [ op |-> op, id |-> id, code |-> code, stock |-> stock, change |-> change ]

\* A get_product_by_id that answers for a missing row with an empty product.
get_product_by_id_or_empty(id) ==
    /\ ProductCallsStarted < MaxProductCalls
    /\ pResponses' = Append(pResponses,
          ProductResponse("get_product_by_id", id, 200,
                          IF InStore(id) THEN pProducts[id].stock ELSE 0, 0))
    /\ UNCHANGED <<pProducts, pNextId, pCalls>>
    /\ UNCHANGED <<pipelineVars, monoVars>>

\* GET /products/{product_id}
get_product_by_id(id) ==
    /\ ProductCallsStarted < MaxProductCalls
    /\ pResponses' = Append(pResponses,
          IF InStore(id)
          THEN ProductResponse("get_product_by_id", id, 200, pProducts[id].stock, 0)
          ELSE ProductResponse("get_product_by_id", id, 404, NULL, 0))
    /\ UNCHANGED <<pProducts, pNextId, pCalls>>
    /\ UNCHANGED <<pipelineVars, monoVars>>

\* POST /products
create_product(stock) ==
    /\ ProductCallsStarted < MaxProductCalls
    /\ pNextId \in ProductIds
    /\ pProducts' = [ i \in DOMAIN pProducts \cup {pNextId} |->
                        IF i = pNextId THEN [stock |-> stock] ELSE pProducts[i] ]
    /\ pNextId' = pNextId + 1
    /\ pResponses' = Append(pResponses,
          ProductResponse("create_product", pNextId, 201, stock, 0))
    /\ UNCHANGED pCalls
    /\ UNCHANGED <<pipelineVars, monoVars>>

\* PUT /products/{product_id}; the request sets the stock or leaves it out.
update_product(id, sets_stock, stock) ==
    /\ ProductCallsStarted < MaxProductCalls
    /\ IF InStore(id)
       THEN LET new == IF sets_stock THEN stock ELSE pProducts[id].stock IN
            /\ pProducts' = [pProducts EXCEPT ![id] = [stock |-> new]]
            /\ pResponses' = Append(pResponses,
                  ProductResponse("update_product", id, 200, new, 0))
       ELSE /\ pResponses' = Append(pResponses,
                  ProductResponse("update_product", id, 404, NULL, 0))
            /\ UNCHANGED pProducts
    /\ UNCHANGED <<pNextId, pCalls>>
    /\ UNCHANGED <<pipelineVars, monoVars>>

\* DELETE /products/{product_id}
delete_product(id) ==
    /\ ProductCallsStarted < MaxProductCalls
    /\ IF InStore(id)
       THEN /\ pProducts' = [ i \in DOMAIN pProducts \ {id} |-> pProducts[i] ]
            /\ pResponses' = Append(pResponses,
                  ProductResponse("delete_product", id, 204, NULL, 0))
       ELSE /\ pResponses' = Append(pResponses,
                  ProductResponse("delete_product", id, 404, NULL, 0))
            /\ UNCHANGED pProducts
    /\ UNCHANGED <<pNextId, pCalls>>
    /\ UNCHANGED <<pipelineVars, monoVars>>

\* The stock that db.commit() writes: the value computed from the row as it
\* was read.
StockWritten(committed, new_stock, change) == new_stock

\* if new_stock < 0: raise ValueError, which the service turns into
\* InsufficientStockException.
StockRejected(stock, change) == stock + change < 0

\* PATCH /products/{product_id}/stock, from the query of get_by_id to the
\* assignment of db_product.stock: 404 when there is no row, 400 when the new
\* stock would be negative; otherwise the new stock waits for the commit.
update_stock(w, id, change) ==
    /\ ProductCallsStarted < MaxProductCalls
    /\ pCalls[w].pc = "idle"
    /\ IF ~InStore(id)
       THEN /\ pResponses' = Append(pResponses,
                  ProductResponse("update_stock", id, 404, NULL, change))
            /\ UNCHANGED pCalls
       ELSE IF StockRejected(pProducts[id].stock, change)
       THEN /\ pResponses' = Append(pResponses,
                  ProductResponse("update_stock", id, 400, pProducts[id].stock, change))
            /\ UNCHANGED pCalls
       ELSE /\ pCalls' = [pCalls EXCEPT ![w] =
                  [ pc |-> "commit", id |-> id, change |-> change,
                    new_stock |-> pProducts[id].stock + change ]]
            /\ UNCHANGED pResponses
    /\ UNCHANGED <<pProducts, pNextId>>
    /\ UNCHANGED <<pipelineVars, monoVars>>

\* db.commit() and db.refresh() of update_stock: the UPDATE writes the new
\* stock; when the row was deleted meanwhile it matches no row, the flush
\* raises and the route answers 500.
update_stock_commit(w) ==
    /\ pCalls[w].pc = "commit"
    /\ LET c == pCalls[w] IN
       IF InStore(c.id)
       THEN LET written == StockWritten(pProducts[c.id].stock, c.new_stock, c.change) IN
            /\ pProducts' = [pProducts EXCEPT ![c.id] = [stock |-> written]]
            /\ pResponses' = Append(pResponses,
                  ProductResponse("update_stock", c.id, 200, written, c.change))
       ELSE /\ pResponses' = Append(pResponses,
                  ProductResponse("update_stock", c.id, 500, NULL, c.change))
            /\ UNCHANGED pProducts
    /\ pCalls' = [pCalls EXCEPT ![w] = IdleCall]
    /\ UNCHANGED pNextId
    /\ UNCHANGED <<pipelineVars, monoVars>>

(* --------------------------- specification ---------------------------- *)
Next ==
    \/ startup_event
    \/ checkout(PipelineRequest(Len(responses) + 1))
    \/ BrokerDown
    \/ BrokerBack
    \/ \E f \in ForeignMessages : ForeignPublish(f[1], f[2])
    \/ PaymentStartConsuming
    \/ PaymentRestart
    \/ PaymentCallback
    \/ \E raises \in BOOLEAN : PaymentGateway(raises)
    \/ PaymentPublish
    \/ PaymentAck
    \/ EmailStartConsuming
    \/ EmailRestart
    \/ EmailCallback
    \/ \E raises \in BOOLEAN : EmailSend(raises)
    \/ EmailAck

Spec == Init /\ [][Next]_vars

\* The order service alone, over every request of the bounds.
IntakeNext ==
    \/ startup_event
    \/ \E req \in Requests : checkout(req)
    \/ BrokerDown
    \/ BrokerBack

IntakeSpec == Init /\ [][IntakeNext]_vars

\* The happy path: the broker stays reachable, orders are placed while both
\* consumers are consuming, and neither the gateway call nor the send raises.
\* Each consumer is a thread in a blocking consume loop, so a step of a
\* callback that can be taken is taken.
HappyCheckout ==
    /\ payState = "consuming"
    /\ emailState = "consuming"
    /\ \E k \in 1..Len(PipelineRequests) : checkout(PipelineRequests[k])

HappyNext ==
    \/ startup_event
    \/ HappyCheckout
    \/ PaymentStartConsuming
    \/ PaymentCallback
    \/ PaymentGateway(FALSE)
    \/ PaymentPublish
    \/ PaymentAck
    \/ EmailStartConsuming
    \/ EmailCallback
    \/ EmailSend(FALSE)
    \/ EmailAck

HappyFairness ==
    /\ WF_vars(PaymentCallback)
    /\ WF_vars(PaymentGateway(FALSE))
    /\ WF_vars(PaymentPublish)
    /\ WF_vars(PaymentAck)
    /\ WF_vars(EmailCallback)
    /\ WF_vars(EmailSend(FALSE))
    /\ WF_vars(EmailAck)

HappySpec == Init /\ [][HappyNext]_vars /\ HappyFairness

\* The order service with an order store whose commits may fail.
StoreNext ==
    \/ startup_event
    \/ \E k \in 1..Len(PipelineRequests), persistFails, finalFails \in BOOLEAN :
          Checkout(PipelineRequests[k], persistFails, finalFails)
    \/ BrokerDown
    \/ BrokerBack

StoreSpec == Init /\ [][StoreNext]_vars

\* The product service: its routes, with the update_stock calls of two
\* request handlers running side by side.
ProductNext ==
    \/ \E id \in ProductIds : get_product_by_id(id)
    \/ \E stock \in StockValues : create_product(stock)
    \/ \E id \in ProductIds, sets_stock \in BOOLEAN, stock \in StockValues :
          update_product(id, sets_stock, stock)
    \/ \E id \in ProductIds : delete_product(id)
    \/ \E w \in ProductWorkers, id \in ProductIds, change \in StockChanges :
          update_stock(w, id, change)
    \/ \E w \in ProductWorkers : update_stock_commit(w)

ProductSpec == Init /\ [][ProductNext]_vars

\* The stock route alone: nothing but update_stock calls.
StockNext ==
    \/ \E w \in ProductWorkers, id \in ProductIds, change \in StockChanges :
          update_stock(w, id, change)
    \/ \E w \in ProductWorkers : update_stock_commit(w)

StockSpec == Init /\ [][StockNext]_vars

\* The monolith: every user comes with one of the carts, and the calls of
\* create_order_from_cart run side by side.
MonoInit ==
    /\ PipelineInit
    /\ MonoIdle
    /\ mCarts \in [MonoUsers -> MonoCartChoices]
    /\ ProductIdle

MonoNext ==
    \/ \E u \in MonoUsers : MonoValidate(u)
    \/ \E u \in MonoUsers, src \in {"row", "identity_map"} : MonoReserve(u, src)
    \/ \E u \in MonoUsers, success \in BOOLEAN : MonoPayment(u, success)
    \/ \E u \in MonoUsers, sent \in BOOLEAN : MonoEmail(u, sent)
    \/ \E u \in MonoUsers, raises \in BOOLEAN : MonoCommit(u, raises)

MonoSpec == MonoInit /\ [][MonoNext]_vars

\* A call that starts when no other call is in progress.
MonoValidateAlone(u) ==
    /\ InProgress = {}
    /\ MonoValidate(u)

\* The monolith serving one checkout at a time.
MonoSeqNext ==
    \/ \E u \in MonoUsers : MonoValidateAlone(u)
    \/ \E u \in MonoUsers, src \in {"row", "identity_map"} : MonoReserve(u, src)
    \/ \E u \in MonoUsers, success \in BOOLEAN : MonoPayment(u, success)
    \/ \E u \in MonoUsers, sent \in BOOLEAN : MonoEmail(u, sent)
    \/ \E u \in MonoUsers, raises \in BOOLEAN : MonoCommit(u, raises)

MonoSeqSpec == MonoInit /\ [][MonoSeqNext]_vars

(* ------------------------------ claims -------------------------------- *)
Range(seq) == { seq[i] : i \in 1..Len(seq) }

PaymentsOf(order_id) == { p \in Range(payments) : p.order_id = order_id }
SendsOf(order_id) == { i \in 1..Len(emailSends) : emailSends[i].order_id = order_id }

\* C1: a checkout step produces the response and creates no Payment row,
\* attempts no email send and moves neither consumer; and a checkout is able
\* to run and return whenever the order service is up, whatever the state of
\* the payment and email workers.
C1_CheckoutIntakeOnly ==
    /\ [](orderUp /\ Len(responses) < MaxOrders
            => ENABLED checkout(PipelineRequest(Len(responses) + 1)))
    /\ [][ Len(responses') > Len(responses)
            => /\ payments' = payments
               /\ emailSends' = emailSends
               /\ pay' = pay /\ email' = email
               /\ payLog' = payLog /\ emailLog' = emailLog ]_vars

\* C1 witness: a checkout has returned 200 while neither worker has ever
\* started, no Payment row exists and no send was attempted.
C1_Witness ==
    /\ Len(responses) = MaxOrders
    /\ \A i \in 1..Len(responses) :
          responses[i].code = 200 /\ PaymentsOf(responses[i].id) = {}
                                  /\ SendsOf(responses[i].id) = {}
    /\ payState = "off" /\ emailState = "off"

\* C2: every checkout whose publish failed (at connect or at publish time)
\* returned success, and its order row is stored with status "pending".
C2_PublishFailureSwallowed ==
    \A i \in 1..Len(responses) :
        responses[i].publish # "ok" =>
            /\ responses[i].code = 200
            /\ responses[i].id \in 1..Len(orders)
            /\ orders[responses[i].id].status = "pending"
            /\ orders[responses[i].id].user_email = responses[i].request.user_email

\* C2 witness: the channel died after startup, two checkouts failed at publish
\* time, both returned 200 and both orders are stored; the broker is back.
C2_Witness ==
    /\ Len(responses) = 2
    /\ responses[1].publish = "publish_failed" /\ responses[1].code = 200
    /\ responses[2].publish = "publish_failed" /\ responses[2].code = 200
    /\ brokerUp
    /\ Len(orders) = 2

\* The other kind of failure: the startup connect failed, and so did the
\* connect of the first checkout, which returned 200.
C2_WitnessConnect ==
    /\ Len(responses) >= 1
    /\ responses[1].publish = "connect_failed" /\ responses[1].code = 200

\* C3: the stored total_amount of every order equals the sum of price x
\* quantity over the items of its request.
C3_TotalIsSum ==
    \A i \in 1..Len(responses) :
        orders[responses[i].id].total_amount = SumItems(responses[i].request.items)

\* C3, the part the code keeps: once created, an order's total_amount and
\* items are never changed.
C3_TotalNeverChanges ==
    [][ \A i \in 1..Len(orders) :
            /\ i <= Len(orders')
            /\ orders'[i].total_amount = orders[i].total_amount
            /\ orders'[i].items = orders[i].items ]_vars

\* The handlings of the payment consumer, finished or in progress.
PayEntries ==
    Range(payLog) \cup
    (IF pay.pc \in {"gateway", "publish", "settle"}
     THEN {[ msg |-> pay.msg, payment |-> pay.payment, gateway |-> pay.gateway,
             publish |-> pay.publish, settle |-> "in_progress" ]}
     ELSE {})

\* The order.created events checkout published.
FromCheckout(msg) ==
    /\ msg.body = "json"
    /\ msg.event_id[1] = "order"

PublishedFor(payment_id) ==
    { i \in 1..Len(published) :
        /\ published[i].routing_key = PaymentProcessedKey
        /\ published[i].body.payment_id = payment_id }

PaymentRow(payment_id) == payments[payment_id]

\* C4: every delivery of an order.created event of checkout created one
\* Payment row of its own; when the handling is over the row is completed if
\* the gateway call returned and failed if it raised; and for a completed row
\* exactly one payment.processed event has been published.
C4_OnePaymentOneEvent ==
    \A e \in PayEntries : FromCheckout(e.msg) =>
        /\ e.payment \in 1..Len(payments)
        /\ \A f \in PayEntries : f.payment = e.payment => f = e
        /\ e.settle # "in_progress" =>
              /\ e.gateway = "returned" => PaymentRow(e.payment).status = "completed"
              /\ e.gateway = "raised" => PaymentRow(e.payment).status = "failed"
              /\ PaymentRow(e.payment).status = "completed"
                    => Cardinality(PublishedFor(e.payment)) = 1

\* C4, as far as the code goes: one row per delivery, completed or failed by
\* the gateway call, and never more than one event per row.
C4_OnePaymentAtMostOneEvent ==
    \A e \in PayEntries : FromCheckout(e.msg) =>
        /\ e.payment \in 1..Len(payments)
        /\ \A f \in PayEntries : f.payment = e.payment => f = e
        /\ e.settle # "in_progress" =>
              /\ e.gateway = "returned" => PaymentRow(e.payment).status = "completed"
              /\ e.gateway = "raised" => PaymentRow(e.payment).status = "failed"
              /\ Cardinality(PublishedFor(e.payment)) = (IF e.publish = "ok" THEN 1 ELSE 0)

\* The handlings of the email consumer, finished or in progress.
EmailEntries ==
    Range(emailLog) \cup
    (IF email.pc \in {"sending", "settle"}
     THEN {[ msg |-> email.msg, attempts |-> email.attempts, sends |-> email.sends,
             result |-> email.result, settle |-> "in_progress" ]}
     ELSE {})

IsCompletedEvent(m) ==
    m.body = "json" /\ "status" \notin m.missing /\ m.status = "completed"

\* C5: a delivery of a payment.processed message to the email consumer makes
\* one send attempt (one call of send_confirmation_email) when the status of
\* the message is "completed" and none when it is anything else or absent;
\* an attempt reaches the sender at most once, and no send is made outside
\* such an attempt.
C5_SendIffCompleted ==
    /\ \A i \in 1..Len(emailLog) :
          /\ emailLog[i].attempts = (IF IsCompletedEvent(emailLog[i].msg) THEN 1 ELSE 0)
          /\ emailLog[i].sends <= emailLog[i].attempts
    /\ email.pc # "idle" => IsCompletedEvent(email.msg) /\ email.attempts = 1
    /\ Len(emailSends) =
          Cardinality({ i \in 1..Len(emailLog) : emailLog[i].sends = 1 })
          + (IF email.pc = "settle" THEN email.sends ELSE 0)

\* C5 witness: a completed event was sent for once, and a message with status
\* "failed" or without status was acknowledged without an attempt.
C5_Witness ==
    /\ \E i \in 1..Len(emailLog) :
          /\ IsCompletedEvent(emailLog[i].msg)
          /\ emailLog[i].attempts = 1
          /\ emailLog[i].sends = 1
    /\ \E i \in 1..Len(emailLog) :
          /\ emailLog[i].msg.body = "json"
          /\ ~IsCompletedEvent(emailLog[i].msg)
          /\ emailLog[i].attempts = 0
          /\ emailLog[i].settle = "ack"
    /\ Len(emailSends) = 1

\* An exception of the kinds the handling of an order.created message can
\* meet: parse or record creation (no payment), gateway, publish.
PayException(e) ==
    \/ e.payment = 0
    \/ e.gateway = "raised"
    \/ e.publish \in {"failed", "not_built"}

\* C6, as stated: in both consumers a message is acknowledged only when its
\* handling succeeded, and whenever an exception occurred (parse, payment
\* record creation, gateway call, publish of the follow-up event) the message
\* is not acknowledged but negatively acknowledged.
C6_AckOnlyOnSuccess ==
    /\ \A e \in Range(payLog) : PayException(e) => e.settle # "ack"
    /\ \A e \in Range(emailLog) : e.msg.body = "garbage" => e.settle # "ack"

\* The exceptions that reach a callback: the body is no JSON or has no
\* event_type; for the payment consumer also an order event without
\* order_id, total_amount or user_id, or whose total_amount is no decimal.
ReachesPayCallback(m) ==
    IF m.body = "garbage" THEN TRUE
    ELSE \/ m.missing \cap {"event_type", "order_id", "total_amount", "user_id"} # {}
         \/ m.total_amount[1] # "decimal"

ReachesEmailCallback(m) ==
    IF m.body = "garbage" THEN TRUE ELSE "event_type" \in m.missing

\* C6, amended: a message is negatively acknowledged exactly when an
\* exception reaches the callback, which then has created no payment and
\* attempted no send; an exception of the gateway call, of the publish or of
\* the send is caught before the callback, and the message is acknowledged.
\* Neither takes effect only when the connection was lost.
C6_NackIffReachesCallback ==
    /\ [](\A e \in Range(payLog) :
            /\ e.settle \in {"ack", "nack", "unsettled"}
            /\ e.settle = "nack" => ReachesPayCallback(e.msg)
            /\ e.settle = "ack" => ~ReachesPayCallback(e.msg)
            /\ ReachesPayCallback(e.msg) <=> e.payment = 0)
    /\ [](\A e \in Range(emailLog) :
            /\ e.settle \in {"ack", "nack", "unsettled"}
            /\ e.settle = "nack" => ReachesEmailCallback(e.msg)
            /\ e.settle = "ack" => ~ReachesEmailCallback(e.msg)
            /\ ReachesEmailCallback(e.msg) => e.attempts = 0)
    /\ [][Len(payLog') > Len(payLog) /\ payState = "consuming"
            => payLog'[Len(payLog')].settle \in {"ack", "nack"}]_vars
    /\ [][Len(emailLog') > Len(emailLog) /\ emailState = "consuming"
            => emailLog'[Len(emailLog')].settle \in {"ack", "nack"}]_vars

\* C6 witness: one message was negatively acknowledged before any payment
\* existed for it, and another whose gateway call raised was acknowledged.
C6_Witness ==
    /\ \E e \in Range(payLog) : e.payment = 0 /\ e.settle = "nack"
    /\ \E e \in Range(payLog) : e.gateway = "raised" /\ e.settle = "ack"

SendsForResponse(k) == SelectSeq(emailSends, LAMBDA c : c.order_id = responses[k].id)

\* The order of the k-th response has a completed payment with a transaction
\* id, and one send, to the buyer of the order, carrying that transaction.
PaidAndMailed(k) ==
    /\ Len(responses) >= k
    /\ Len(SendsForResponse(k)) = 1
    /\ \E p \in PaymentsOf(responses[k].id) :
          /\ p.status = "completed"
          /\ p.transaction_id # NULL
          /\ SendsForResponse(k)[1].user_email = responses[k].user_email
          /\ SendsForResponse(k)[1].transaction_id = p.transaction_id
          /\ SendsForResponse(k)[1].result = "sent"

\* C8: on the happy path every successful checkout leads to a completed
\* payment with a transaction id for its order and then to one send to the
\* buyer's email; there is never a second send for the order, and never a
\* send before the payment is completed.
C8_HappyPathLiveness ==
    /\ \A k \in 1..MaxOrders :
          (Len(responses) >= k /\ responses[k].code = 200) ~> PaidAndMailed(k)
    /\ [](\A k \in 1..Len(responses) :
            /\ Len(SendsForResponse(k)) <= 1
            /\ Len(SendsForResponse(k)) = 1 =>
                  \E p \in PaymentsOf(responses[k].id) :
                      p.status = "completed" /\ p.transaction_id # NULL)

\* C8 witness: every order of the bound was placed, paid and mailed.
C8_Witness ==
    /\ Len(responses) = MaxOrders
    /\ \A k \in 1..MaxOrders : PaidAndMailed(k)
    /\ pay.pc = "idle"
    /\ email.pc = "idle"

\* The ids of the orders events can name.
OrderIds == 1..MaxOrders \cup {99}

DeliveriesOf(o) ==
    Cardinality({ i \in 1..Len(payLog) :
                    payLog[i].payment # 0 /\ payLog[i].msg.order_id = o })
    + (IF pay.pc # "idle" /\ pay.msg.order_id = o THEN 1 ELSE 0)

PublishedDeliveriesOf(o) ==
    Cardinality({ i \in 1..Len(payLog) :
                    payLog[i].publish = "ok" /\ payLog[i].msg.order_id = o })
    + (IF pay.pc = "settle" /\ pay.publish = "ok" /\ pay.msg.order_id = o THEN 1 ELSE 0)

RowIdsOf(o) == { payments[i].id : i \in { j \in 1..Len(payments) : payments[j].order_id = o } }

EventIdsOf(o) ==
    { published[i].body.event_id :
        i \in { j \in 1..Len(published) :
                  /\ published[j].routing_key = PaymentProcessedKey
                  /\ published[j].body.order_id = o } }

SentEventsOf(o) ==
    { emailSends[i].event_id :
        i \in { j \in 1..Len(emailSends) : emailSends[j].order_id = o } }

EmailDeliveriesOf(o) ==
    Cardinality({ i \in 1..Len(emailLog) :
                    emailLog[i].sends = 1 /\ emailLog[i].msg.order_id = o })
    + (IF email.pc = "settle" /\ email.sends = 1 /\ email.msg.order_id = o THEN 1 ELSE 0)

\* C9: the deliveries of the order.created events of an order that got as
\* far as the payment record made as many Payment rows for that order; those
\* that published made as many payment.processed events; and every delivery
\* of such an event to the email consumer made a send of its own. Nothing is
\* deduplicated by event_id or order_id.
C9_NoDeduplication ==
    \A o \in OrderIds :
        /\ Cardinality(RowIdsOf(o)) = DeliveriesOf(o)
        /\ Cardinality(EventIdsOf(o)) = PublishedDeliveriesOf(o)
        /\ Len(SelectSeq(emailSends, LAMBDA c : c.order_id = o)) = EmailDeliveriesOf(o)
        /\ SentEventsOf(o) \subseteq EventIdsOf(o) \cup {<<"foreign", 0>>}

\* C9 witness: the order.created event of order 1 was delivered twice (same
\* event_id), and there are two payments, two events and two sends for it.
C9_Witness ==
    /\ \E i, j \in 1..Len(payLog) :
          /\ i < j
          /\ payLog[i].msg = payLog[j].msg
          /\ FromCheckout(payLog[i].msg)
          /\ payLog[i].msg.order_id = 1
          /\ payLog[i].payment # payLog[j].payment
    /\ Cardinality(RowIdsOf(1)) = 2
    /\ \A i \in 1..Len(payments) : payments[i].status = "completed"
    /\ Cardinality(EventIdsOf(1)) = 2
    /\ Cardinality(SentEventsOf(1)) = 2

\* C10: a Payment row is created pending, its status changes only from
\* pending, to completed or failed, and no row is ever deleted.
C10_PaymentLifecycle ==
    [][ /\ Len(payments') >= Len(payments)
        /\ \A i \in 1..Len(payments) :
              payments'[i].status # payments[i].status
                 => /\ payments[i].status = "pending"
                    /\ payments'[i].status \in {"completed", "failed"}
        /\ \A i \in (Len(payments) + 1)..Len(payments') :
              payments'[i].status = "pending" ]_vars


\* C11: the Payment row of a delivery has the amount the event carried; for
\* an event of checkout that is the total_amount of the Order row the
\* Payment's order_id names; and a payment.processed event carries the amount
\* of its Payment row.
C11_AmountCopied ==
    /\ \A e \in PayEntries : e.payment # 0 =>
          /\ PaymentRow(e.payment).amount = StrToDecimal(e.msg.total_amount)
          /\ PaymentRow(e.payment).order_id = e.msg.order_id
          /\ FromCheckout(e.msg) =>
                /\ e.msg.order_id \in 1..Len(orders)
                /\ orders[e.msg.order_id].total_amount = PaymentRow(e.payment).amount
    /\ \A i \in 1..Len(published) :
          published[i].routing_key = PaymentProcessedKey =>
             LET b == published[i].body IN
             /\ StrToDecimal(b.amount) = PaymentRow(b.payment_id).amount
             /\ b.order_id = PaymentRow(b.payment_id).order_id

\* C11 witness: the order whose items sum to 0.005 and whose stored total is
\* 0.01 has a completed payment of 0.01 and a payment.processed event of 0.01.
C11_Witness ==
    \E e \in Range(payLog) :
        /\ FromCheckout(e.msg)
        /\ SumItems(e.msg.items) # orders[e.msg.order_id].total_amount
        /\ PaymentRow(e.payment).amount = orders[e.msg.order_id].total_amount
        /\ \E i \in PublishedFor(e.payment) :
              StrToDecimal(published[i].body.amount) = orders[e.msg.order_id].total_amount


OrderCreatedEvents ==
    { i \in 1..Len(published) : published[i].routing_key = OrderCreatedKey }

\* C13: a checkout whose commit of the new order row fails answers with a
\* server error, adds no order row and publishes nothing; and every
\* order.created event published names an order row that is stored, with the
\* buyer and the total of that row.
C13_PersistFailureAborts ==
    /\ [](\A i \in OrderCreatedEvents :
            LET b == published[i].body IN
            /\ b.order_id \in 1..Len(orders)
            /\ orders[b.order_id].id = b.order_id
            /\ orders[b.order_id].user_email = b.user_email
            /\ DecimalToStr(orders[b.order_id].total_amount) = b.total_amount)
    /\ [](\A i \in 1..Len(responses) :
            responses[i].persist = "failed" =>
               responses[i].code = 500 /\ responses[i].publish = "not_attempted")
    /\ [](Len(orders) = Cardinality({ i \in 1..Len(responses) : responses[i].persist = "ok" }))
    /\ [][ /\ Len(responses') = Len(responses) + 1
           /\ responses'[Len(responses')].persist = "failed"
           => UNCHANGED <<orders, published, payQueue, emailQueue, pubChannel>> ]_vars

\* C13 witness: the first checkout failed to persist, the second went
\* through: one server error, one order, one event, and it names that order.
C13_Witness ==
    /\ Len(responses) = 2
    /\ responses[1].persist = "failed"
    /\ responses[1].code = 500
    /\ responses[2].code = 200
    /\ responses[2].publish = "ok"
    /\ Len(orders) = 1
    /\ Cardinality(OrderCreatedEvents) = 1


ValidItems(items) ==
    /\ Len(items) >= 1
    /\ \A i \in 1..Len(items) : items[i].quantity >= 1 /\ items[i].price >= 0

\* C14: every stored order has at least one line item, each with quantity
\* >= 1 and price >= 0; and a request that has none, or has an item with a
\* non-positive quantity or a negative price, is not answered with success.
C14_ValidItemsOnly ==
    /\ \A i \in 1..Len(orders) : ValidItems(orders[i].items)
    /\ \A i \in 1..Len(responses) :
          ~ValidItems(responses[i].request.items) => responses[i].code # 200


\* C15: each consumer holds at most one unacknowledged message, the head of
\* its queue; a handling begins only when no other handling of that consumer
\* is in progress, so the blocking gateway or send step of one message is
\* over and the message settled before the next one is delivered.
C15_OneInFlight ==
    /\ [](pay.pc # "idle" => payQueue # <<>> /\ Head(payQueue) = pay.msg)
    /\ [](email.pc # "idle" => emailQueue # <<>> /\ Head(emailQueue) = email.msg)
    /\ [][Len(payments') > Len(payments) => pay.pc = "idle" /\ pay'.pc = "gateway"]_vars
    /\ [][pay'.pc = "gateway" /\ pay' # pay => pay.pc = "idle"]_vars
    /\ [][email'.pc = "sending" /\ email' # email => email.pc = "idle"]_vars
    /\ [][Len(payLog') > Len(payLog) =>
            /\ Len(payLog') = Len(payLog) + 1
            /\ pay'.pc = "idle"
            /\ payLog'[Len(payLog')].msg = Head(payQueue)]_vars
    /\ [][Len(emailLog') > Len(emailLog) =>
            /\ Len(emailLog') = Len(emailLog) + 1
            /\ email'.pc = "idle"
            /\ emailLog'[Len(emailLog')].msg = Head(emailQueue)]_vars

\* C15 witness: the payment consumer is in its gateway call with a second
\* message waiting behind the one it handles.
C15_Witness ==
    /\ pay.pc = "gateway"
    /\ Len(payQueue) = 2
    /\ payState = "consuming"

\* The same for the email consumer, in its send.
C15_WitnessEmail ==
    /\ email.pc = "sending"
    /\ Len(emailQueue) = 2
    /\ emailState = "consuming"


\* C16, as stated: every message delivered to a callback is settled, by
\* basic_ack or by basic_nack, on every path through the callback.
C16_AlwaysSettled ==
    /\ \A e \in Range(payLog) : e.settle \in {"ack", "nack"}
    /\ \A e \in Range(emailLog) : e.settle \in {"ack", "nack"}

\* The events of the services themselves, each with an event_id of its own.
OwnEvent(msg) == msg.body = "json" /\ msg.event_id[1] \in {"order", "payment"}

\* C16, amended: while the consumer's connection holds, the callback settles
\* the message once, by ack or by nack, and the message leaves the queue for
\* good; it is never put back. Only when the connection was lost before the
\* callback settles do both calls fail: the message stays unacknowledged at
\* the head of the queue, and a message is handled a second time only after
\* such an unsettled handling.
C16_SettledOnceWhileConnected ==
    /\ [][Len(payLog') > Len(payLog) =>
            LET e == payLog'[Len(payLog')] IN
            IF payState = "consuming"
            THEN e.settle \in {"ack", "nack"} /\ payQueue' = Tail(payQueue)
            ELSE e.settle = "unsettled" /\ payQueue' = payQueue]_vars
    /\ [][Len(emailLog') > Len(emailLog) =>
            LET e == emailLog'[Len(emailLog')] IN
            IF emailState = "consuming"
            THEN e.settle \in {"ack", "nack"} /\ emailQueue' = Tail(emailQueue)
            ELSE e.settle = "unsettled" /\ emailQueue' = emailQueue]_vars
    /\ [](\A i, j \in 1..Len(payLog) :
            i < j /\ OwnEvent(payLog[i].msg) /\ payLog[i].msg = payLog[j].msg
               => payLog[i].settle = "unsettled")
    /\ [](\A i, j \in 1..Len(emailLog) :
            i < j /\ OwnEvent(emailLog[i].msg) /\ emailLog[i].msg = emailLog[j].msg
               => emailLog[i].settle = "unsettled")

\* C16 witness: a handling lost its connection before settling, the consumer
\* was started again, and the same message was handled again and acknowledged.
C16_Witness ==
    \E i, j \in 1..Len(payLog) :
        /\ i < j
        /\ OwnEvent(payLog[i].msg)
        /\ payLog[i].msg = payLog[j].msg
        /\ payLog[i].settle = "unsettled"
        /\ payLog[j].settle = "ack"


\* C17: when the connect of start_consuming fails as a consumer starts up,
\* the worker process exits.
C17_StartupFailureExits ==
    /\ [][payState = "off" /\ payState' = "stopped" => PaymentProcess' = "exited"]_vars
    /\ [][emailState = "off" /\ emailState' = "stopped" => EmailProcess' = "exited"]_vars


C19_SendFailureAcked ==
    \A e \in Range(emailLog) :
        IsCompletedEvent(e.msg) => e.attempts = 1 /\ e.settle = "ack"

\* C19, amended: the handling of a completed message makes one attempt, is
\* never negatively acknowledged, and does the same whether the send returned
\* or raised: while the connection holds it acknowledges and the message
\* leaves the queue; only a connection lost before the acknowledgement leaves
\* the message at the broker. The consumer itself makes no second attempt.
C19_SendFailureAckedWhileConnected ==
    /\ [](\A e \in Range(emailLog) :
            IsCompletedEvent(e.msg) =>
               /\ e.attempts = 1
               /\ e.sends <= 1
               /\ e.result \in {"sent", "raised"}
               /\ e.settle \in {"ack", "unsettled"})
    /\ [][ /\ Len(emailLog') > Len(emailLog)
           /\ emailLog'[Len(emailLog')].attempts = 1
           => IF emailState = "consuming"
              THEN /\ emailLog'[Len(emailLog')].settle = "ack"
                   /\ emailQueue' = Tail(emailQueue)
              ELSE /\ emailLog'[Len(emailLog')].settle = "unsettled"
                   /\ emailQueue' = emailQueue ]_vars
    /\ [][Len(emailSends') > Len(emailSends) =>
            /\ Len(emailSends') = Len(emailSends) + 1
            /\ email.pc = "sending" /\ email'.pc = "settle"]_vars

\* C19 witness: one send raised and one returned, and both messages were
\* acknowledged and are off the queue.
C19_Witness ==
    /\ \E e \in Range(emailLog) : e.result = "raised" /\ e.sends = 1 /\ e.settle = "ack"
    /\ \E e \in Range(emailLog) : e.result = "sent" /\ e.settle = "ack"
    /\ emailQueue = <<>>


\* C20, as stated: a Payment row has a transaction id exactly when its status
\* is "completed".
C20_TransactionIdIffCompleted ==
    \A i \in DOMAIN payments :
        (payments[i].transaction_id # NULL) <=> (payments[i].status = "completed")


\* The order row of an order.created event that checkout published.
OrderRowOf(msg) == CHOOSE o \in Range(orders) : o.id = msg.order_id

\* C21: every order.created event of checkout carries the user_email and the
\* id of the order row it was published for; a step that publishes a
\* payment.processed event gives it the user_email and order_id of the
\* order.created message being handled; and a step that makes a send
\* addresses it to the user_email of the payment.processed message being
\* handled, with that message's order_id.
C21_EmailCarriedUnchanged ==
    /\ [](\A i \in 1..Len(published) :
            published[i].routing_key = OrderCreatedKey =>
               /\ \E o \in Range(orders) : o.id = published[i].body.order_id
               /\ published[i].body.user_email = OrderRowOf(published[i].body).user_email)
    /\ [][ /\ Len(published') > Len(published)
           /\ published'[Len(published')].routing_key = PaymentProcessedKey
           => /\ pay.pc = "publish"
              /\ published'[Len(published')].body.user_email = pay.msg.user_email
              /\ published'[Len(published')].body.order_id = pay.msg.order_id
              /\ FromCheckout(pay.msg) =>
                   published'[Len(published')].body.user_email
                      = OrderRowOf(pay.msg).user_email ]_vars
    /\ [][ Len(emailSends') > Len(emailSends)
           => /\ email.pc = "sending"
              /\ emailSends'[Len(emailSends')].user_email = email.msg.user_email
              /\ emailSends'[Len(emailSends')].order_id = email.msg.order_id ]_vars

\* C21 witness: both buyers' orders went through the chain, and each send
\* reached the address its order was placed with.
C21_Witness ==
    /\ Len(orders) = 2
    /\ orders[1].user_email # orders[2].user_email
    /\ \A k \in 1..2 :
         \E i \in 1..Len(emailSends) :
            /\ emailSends[i].order_id = orders[k].id
            /\ emailSends[i].user_email = orders[k].user_email




\* The four operations of the product service that look a product up by id.
LookupOps == {"get_product_by_id", "update_product", "delete_product", "update_stock"}

\* The response a step of the product service returned.
LastProductResponse == pResponses'[Len(pResponses')]

\* C22: a step in which get_product_by_id, update_product, delete_product or
\* update_stock looks up an id that has no row answers 404 and leaves the
\* store as it was; and these operations answer 404 for no other id.
C22_MissingProduct404 ==
    [][ /\ Len(pResponses') > Len(pResponses)
        /\ LastProductResponse.op \in LookupOps
        /\ pCalls' = pCalls
        => /\ ~InStore(LastProductResponse.id) =>
                /\ LastProductResponse.code = 404
                /\ pProducts' = pProducts
                /\ pNextId' = pNextId
           /\ LastProductResponse.code = 404 => ~InStore(LastProductResponse.id) ]_vars

\* C22 witness: each of the four operations was called with an id that has
\* no row (id 3 was never created) and answered 404, and the seeded rows are
\* still there.
C22_Witness ==
    /\ \A op \in LookupOps :
         \E i \in 1..Len(pResponses) :
            pResponses[i].op = op /\ pResponses[i].id = 3 /\ pResponses[i].code = 404
    /\ pProducts = SeedProducts


\* The ids of the orders placed at the checkout.
PlacedOrderIds == 1..MaxOrders

\* C23: for every order id of the checkout, a Payment row with that order_id
\* exists only when the Order row exists and its order.created event is among
\* the published messages; a payment.processed event is published only in a
\* step that starts with its Payment row committed as "completed", for the
\* same order; and a send is attempted for the order only for a
\* payment.processed event that is among the published messages. The three
\* logs only grow, so "exists" is "happened before".
C23_CausalOrder ==
    /\ [](\A p \in Range(payments) :
            p.order_id \in PlacedOrderIds =>
               /\ \E o \in Range(orders) : o.id = p.order_id
               /\ \E i \in 1..Len(published) :
                     /\ published[i].routing_key = OrderCreatedKey
                     /\ published[i].body.order_id = p.order_id)
    /\ [][ /\ Len(published') > Len(published)
           /\ published'[Len(published')].routing_key = PaymentProcessedKey
           => /\ pay.pc = "publish"
              /\ payments[pay.payment].status = "completed"
              /\ payments[pay.payment].order_id = published'[Len(published')].body.order_id
              /\ published'[Len(published')].body.payment_id = pay.payment ]_vars
    /\ [](\A e \in EmailEntries :
            (e.attempts = 1 /\ e.msg.order_id \in PlacedOrderIds) =>
               \E i \in 1..Len(published) :
                  /\ published[i].routing_key = PaymentProcessedKey
                  /\ published[i].body = e.msg
                  /\ payments[e.msg.payment_id].order_id = e.msg.order_id)
    /\ [][ /\ Len(orders') >= Len(orders)
           /\ Len(payments') >= Len(payments)
           /\ Len(published') >= Len(published)
           /\ \A i \in 1..Len(published) : published'[i] = published[i]
           /\ \A i \in 1..Len(orders) : orders'[i].id = orders[i].id
           /\ \A i \in 1..Len(payments) : payments'[i].order_id = payments[i].order_id ]_vars

\* C23 witness: an order went the whole way: row, event, completed payment,
\* payment.processed event and a send for it.
C23_Witness ==
    \E o \in Range(orders) :
       /\ \E p \in Range(payments) : p.order_id = o.id /\ p.status = "completed"
       /\ \E i \in 1..Len(published) :
             published[i].routing_key = PaymentProcessedKey /\ published[i].body.order_id = o.id
       /\ \E j \in 1..Len(emailSends) : emailSends[j].order_id = o.id
       /\ Len(orders) = 1


\* Anything the pipeline did for an order id after the checkout.
Processed(order_id) ==
    \/ \E p \in Range(payments) : p.order_id = order_id
    \/ \E i \in 1..Len(published) : published[i].body.order_id = order_id
    \/ \E i \in 1..Len(emailSends) : emailSends[i].order_id = order_id
    \/ \E i \in 1..Len(payQueue) :
          payQueue[i].body = "json" /\ payQueue[i].order_id = order_id
    \/ \E i \in 1..Len(emailQueue) :
          emailQueue[i].body = "json" /\ emailQueue[i].order_id = order_id

\* C24: in every state, an order whose checkout answered with a failed
\* publish has no Payment row, no event of either kind, no queued message and
\* no send, and its row is stored with status "pending"; a publisher channel
\* that is broken stays broken; and a checkout that finds it broken still
\* answers 200, stores the order and publishes nothing.
C24_UnpublishedNeverProcessed ==
    /\ [](\A r \in Range(responses) :
            (r.code = 200 /\ r.publish # "ok") =>
               /\ ~Processed(r.id)
               /\ \E o \in Range(orders) : o.id = r.id /\ o.status = "pending")
    /\ [][pubChannel = "dead" => pubChannel' = "dead"]_vars
    /\ [][ (Len(responses') > Len(responses) /\ pubChannel = "dead")
           => /\ responses'[Len(responses')].code = 200
              /\ responses'[Len(responses')].publish = "publish_failed"
              /\ Len(orders') = Len(orders) + 1
              /\ published' = published
              /\ payQueue' = payQueue ]_vars

\* C24 witness: the channel broke, the broker is back and both consumers are
\* consuming with nothing to do, and a checkout made after the break
\* succeeded with its order left pending and unprocessed.
C24_Witness ==
    /\ brokerUp /\ pubChannel = "dead"
    /\ payState = "consuming" /\ emailState = "consuming"
    /\ pay.pc = "idle" /\ payQueue = <<>> /\ emailQueue = <<>>
    /\ Len(responses) = 2
    /\ responses[2].code = 200 /\ responses[2].publish = "publish_failed"
    /\ orders[2].status = "pending" /\ ~Processed(2)


\* The changes of state of a consumer: started (connected, bound, consuming,
\* or stopped when the connection fails), connection lost between messages
\* or during a callback, the callback that lost its connection returning, and
\* a stopped process being started anew.
LifecycleSteps ==
    { <<"off", "consuming">>, <<"off", "stopped">>,
      <<"consuming", "stopped">>, <<"consuming", "broken">>,
      <<"broken", "stopped">>, <<"stopped", "consuming">> }

\* C25: each consumer moves only along its lifecycle; it is consuming only
\* with its queue declared and bound; a callback starts only while it is
\* consuming; and once broken or stopped it is consuming again only as a
\* newly started process, so that process handles nothing more.
C25_ConsumerLifecycle ==
    /\ [](payState \in {"consuming", "broken"} => payBound)
    /\ [](emailState \in {"consuming", "broken"} => emailBound)
    /\ [](pay.pc # "idle" => payState \in {"consuming", "broken"})
    /\ [](email.pc # "idle" => emailState \in {"consuming", "broken"})
    /\ [][payState' # payState => <<payState, payState'>> \in LifecycleSteps]_vars
    /\ [][emailState' # emailState => <<emailState, emailState'>> \in LifecycleSteps]_vars
    /\ [][ (pay.pc = "idle" /\ (pay'.pc # "idle" \/ Len(payLog') > Len(payLog)))
           => payState = "consuming" /\ payBound ]_vars
    /\ [][ (email.pc = "idle" /\ (email'.pc # "idle" \/ Len(emailLog') > Len(emailLog)))
           => emailState = "consuming" /\ emailBound ]_vars
    /\ [][ (payState \in {"broken", "stopped"} /\ payState' = "consuming")
           => payState = "stopped" /\ payStarts' = payStarts + 1 ]_vars
    /\ [][ (emailState \in {"broken", "stopped"} /\ emailState' = "consuming")
           => emailState = "stopped" /\ emailStarts' = emailStarts + 1 ]_vars
    /\ [][ (payState = "stopped" /\ payStarts' = payStarts)
           => payState' = "stopped" /\ pay' = pay /\ payLog' = payLog /\ payments' = payments ]_vars
    /\ [][ (emailState = "stopped" /\ emailStarts' = emailStarts)
           => emailState' = "stopped" /\ email' = email /\ emailLog' = emailLog
              /\ emailSends' = emailSends ]_vars

\* C25 witness: the payment consumer handled a message, lost its connection
\* during the next callback and stopped; the broker is back, and an
\* order.created event published since waits in its queue unhandled.
C25_Witness ==
    /\ payState = "stopped" /\ brokerUp /\ payBound
    /\ \E i \in 1..Len(payLog) : payLog[i].settle = "unsettled"
    /\ \E i \in 1..Len(payQueue) :
          /\ FromCheckout(payQueue[i])
          /\ \A e \in Range(payLog) : e.msg # payQueue[i]


\* The sum of price_snapshot x quantity over the items of a cart.
SumOfCart(cart) ==
    LET sum[i \in 0..Len(cart)] ==
           IF i = 0 THEN 0 ELSE sum[i - 1] + cart[i].price_snapshot * cart[i].quantity
    IN sum[Len(cart)]

\* The response a step of the monolith's checkout returned.
LastMonoResponse == mResponses'[Len(mResponses')]

UnitsSold(p) ==
    LET sold[i \in 0..Len(mOrderItems)] ==
           IF i = 0 THEN 0
           ELSE sold[i - 1] + (IF mOrderItems[i].product_id = p
                               THEN mOrderItems[i].quantity ELSE 0)
    IN sold[Len(mOrderItems)]

\* C27, as stated: every committed Inventory row has
\* 0 <= reserved_quantity <= quantity, and the orders committed for a product
\* never add up to more units than the shop had in stock.
C27_NeverOversold ==
    \A p \in MonoProducts :
       /\ mInventory[p].quantity >= 0
       /\ mInventory[p].reserved_quantity >= 0
       /\ mInventory[p].reserved_quantity <= mInventory[p].quantity
       /\ UnitsSold(p) <= MonoStock[p].quantity


\* The payment.processed events the payment worker published.
PaymentProcessedEvents ==
    { published[i].body :
        i \in { j \in 1..Len(published) : published[j].routing_key = PaymentProcessedKey } }

\* C28: every payment.processed event the payment worker published has status
\* "completed" and a transaction id, the one of its Payment row; the event
\* is published in a step that finds the row completed; and the email
\* consumer makes a send attempt for every such event it handles, so it never
\* skips one.
C28_OnlyCompletedPublished ==
    /\ [](\A e \in PaymentProcessedEvents :
            /\ e.status = "completed"
            /\ e.transaction_id # NULL
            /\ e.transaction_id = payments[e.payment_id].transaction_id)
    /\ [][ Len(published') > Len(published)
           /\ published'[Len(published')].routing_key = PaymentProcessedKey
           => payments[pay.payment].status = "completed" /\ pay.gateway = "returned" ]_vars
    /\ [](\A e \in EmailEntries :
            (e.msg.body = "json" /\ e.msg.event_id[1] = "payment") =>
               e.msg \in PaymentProcessedEvents /\ e.attempts = 1)

\* C28 witness: one payment failed at the gateway and published nothing, the
\* other completed and published its event, which the email consumer handled
\* with a send attempt.
C28_Witness ==
    /\ \E p \in Range(payments) :
          /\ p.status = "failed" /\ p.transaction_id = NULL
          /\ \A e \in PaymentProcessedEvents : e.payment_id # p.id
    /\ \E e \in PaymentProcessedEvents :
          /\ e.status = "completed"
          /\ \E l \in Range(emailLog) : l.msg = e /\ l.attempts = 1 /\ l.settle = "ack"


\* The checkout responses that reported success.
Succeeded == { i \in 1..Len(responses) : responses[i].code = 200 }

\* C29, as stated: the stored orders are those of the requests that were
\* answered with success, and every order.created event published belongs to
\* such a request: a request answered with an error left neither a row nor
\* an event.
C29_AllOrNothing ==
    /\ Len(orders) = Cardinality(Succeeded)
    /\ \A o \in Range(orders) : \E i \in Succeeded : responses[i].id = o.id
    /\ \A e \in OrderCreatedEvents :
          \E i \in Succeeded : responses[i].id = published[e].body.order_id


\* The sum of the stock changes of a product that update_stock accepted.
AcceptedChanges(id) ==
    LET sum[i \in 0..Len(pResponses)] ==
           IF i = 0 THEN 0
           ELSE sum[i - 1] + (IF /\ pResponses[i].op = "update_stock"
                                 /\ pResponses[i].id = id
                                 /\ pResponses[i].code = 200
                              THEN pResponses[i].change ELSE 0)
    IN sum[Len(pResponses)]

\* C30, as stated: no product has a negative stock, and once every
\* update_stock call has returned, the stock of a product is the stock it
\* started with plus the changes that were accepted.
C30_StockIsSumOfAccepted ==
    /\ \A id \in DOMAIN pProducts : pProducts[id].stock >= 0
    /\ (\A w \in ProductWorkers : pCalls[w].pc = "idle") =>
          \A id \in DOMAIN pProducts :
             pProducts[id].stock = SeedProducts[id].stock + AcceptedChanges(id)

====
